---- MODULE Spec2Model ----
(***************************************************************************)
(* Light-client verification core of light-spike: the Demuxer             *)
(* (components/demuxer.rs) driving a suspendable Scheduler against Io, a   *)
(* Verifier and the trusted Store (store.rs).                              *)
(*                                                                         *)
(* The Demuxer and the Store are translated from their source.  The        *)
(* Scheduler, the Verifier, Io and the generator driver `drain` are        *)
(* imported by demuxer.rs (lines 1-2) but their bodies are not part of the *)
(* source tree at hand; they are modelled from the design document         *)
(* (sections 4.1-4.3, 5 and 9).                                            *)
(*                                                                         *)
(* One frame of `stack` is one activation of verify_height /               *)
(* verify_light_block, i.e. one scheduler run.  A VerifyLightBlock request *)
(* is answered by a nested activation (demuxer.rs:153), which is a new     *)
(* frame on top of the suspended one.                                      *)
(*                                                                         *)
(* Spec is the Demuxer and its caller.  RepeatSpec adds the caller making  *)
(* the call that has just returned once more.  StoreSpec is the Store in   *)
(* the hands of its writer handle and its reader handles (store.rs:66-105),*)
(* each read and each add taking the lock.  VerifierSpec is one decision   *)
(* of the Verifier on a synthetic candidate (design 4.1).                  *)
(***************************************************************************)
EXTENDS Integers, Sequences, FiniteSets, TLC

\* ------------------------------------------------------------------ bounds
MaxHeight == 4      \* heights are 0..MaxHeight
MaxCalls  == 1      \* top-level calls made by the caller
MaxDepth  == 4      \* cap on nested activations (never binding for bisection)
MaxStoreHeight == 2 \* heights used by the store's direct clients are 0..MaxStoreHeight
MaxReaders == 2     \* reader handles: the one from split and its clones
MaxPower == 6       \* total voting power of a reference validator set

Heights  == 0..MaxHeight
\* Two distinguishable block contents per height: the one the node serves
\* and another one.
Contents == {"a", "b"}

\* ------------------------------------------------------------------- types
\* LightBlock / TrustedState: the height and an opaque content.
LightBlock == [height : Heights, content : Contents]
NoBlock == [height |-> -1, content |-> "none"]

\* VerifierError variants: the voting-power rejection and every other one.
VotingPower == "InsufficientVotingPower"
OtherRejection == "InvalidLightBlock"
VerifierErrors == {VotingPower, OtherRejection}

\* DemuxerError (demuxer.rs:5-9): which family, and the wrapped cause.
NoError == [kind |-> "None", cause |-> "None", height |-> -1]
DemuxerErrorScheduler(e) == [kind |-> "Scheduler", cause |-> e, height |-> -1]
DemuxerErrorVerifier(e) == [kind |-> "Verifier", cause |-> e, height |-> -1]
DemuxerErrorIo(h) == [kind |-> "Io", cause |-> "IoError", height |-> h]

\* Result<Vec<LightBlock>, DemuxerError> and Result<LightBlock, DemuxerError>.
NoResult == [kind |-> "None", states |-> <<>>, err |-> NoError]
Ok(list) == [kind |-> "Ok", states |-> list, err |-> NoError]
Err(e) == [kind |-> "Err", states |-> <<>>, err |-> e]

\* SchedulerRequest
NoRequest == [kind |-> "None", height |-> -1, light_block |-> NoBlock, trusted_state |-> NoBlock]
GetLightBlock(h) ==
    [kind |-> "GetLightBlock", height |-> h, light_block |-> NoBlock, trusted_state |-> NoBlock]
VerifyLightBlock(lb, ts) ==
    [kind |-> "VerifyLightBlock", height |-> lb.height, light_block |-> lb, trusted_state |-> ts]
ValidateLightBlock(lb, ts) ==
    [kind |-> "ValidateLightBlock", height |-> lb.height, light_block |-> lb, trusted_state |-> ts]

\* SchedulerResponse
NoResponse == [kind |-> "None", ok |-> TRUE, blocks |-> <<>>, err |-> "None"]
ResponseInit == [kind |-> "Init", ok |-> TRUE, blocks |-> <<>>, err |-> "None"]
ResponseLightBlock(lb) == [kind |-> "LightBlock", ok |-> TRUE, blocks |-> <<lb>>, err |-> "None"]
ResponseVerifiedOk(ts) == [kind |-> "Verified", ok |-> TRUE, blocks |-> ts, err |-> "None"]
ResponseVerifiedErr(e) == [kind |-> "Verified", ok |-> FALSE, blocks |-> <<>>, err |-> e]
ResponseValidatedOk(lb) == [kind |-> "Validated", ok |-> TRUE, blocks |-> <<lb>>, err |-> "None"]
ResponseValidatedErr(e) == [kind |-> "Validated", ok |-> FALSE, blocks |-> <<>>, err |-> e]

\* ------------------------------------------------------------------- state
VARIABLES
    store,      \* the trusted Store's BTreeMap<Height, LightBlock>
    stack,      \* activations of verify_height / verify_light_block, outermost first
    result,     \* what the last top-level call returned to the caller
    verdicts,   \* the Verifier's answers in the current call, keyed by <<trusted, candidate>>
    calls,      \* number of top-level calls started
    call,       \* history: the running (or last) top-level call and the store at its start
    io_failed,  \* history: the IoError raised during the current top-level call
    io_answers, \* Io's answers in the current call, keyed by height
    first,      \* history: what the call returned that the running call repeats
    single,     \* what the last validate_light_block / fetch_light_block call returned
    rwlock,     \* the RwLock around the Store: its writer flag and its readers
    writer,     \* StoreReadWriter::add in progress: its position and its block
    handles,    \* the StoreReader handles that exist
    observed,   \* history: what the read that has just returned gave
    check       \* one Verifier decision: its inputs and its verdict

\* The variables of the Demuxer, of the Store's handles, and all of them.
demuxer_vars ==
    <<stack, result, verdicts, calls, call, io_failed, io_answers, first, single>>
handle_vars == <<rwlock, writer, handles, observed>>
vars == <<store, demuxer_vars, handle_vars, check>>

\* ------------------------------------------------------------------- Store
\* Store::get (store.rs:45-47): Option<LightBlock> as a sequence of length <= 1.
StoreGet(s, h) == IF h \in DOMAIN s THEN <<s[h]>> ELSE <<>>

\* The map is cleared before the insert: only the newest block is kept.
StoreAdd_latest_only(s, lb) == [h \in {lb.height} |-> lb]

\* The entry API's or_insert in the place of insert: a stored height is kept.
StoreAdd_or_insert(s, lb) ==
    [h \in (DOMAIN s) \cup {lb.height} |-> IF h \in DOMAIN s THEN s[h] ELSE lb]

\* Store::add (store.rs:49-51) under StoreReadWriter::add's write lock
\* (store.rs:101-104): insert keyed by the block's own height, replacing.
StoreAdd(s, lb) ==
    [h \in (DOMAIN s) \cup {lb.height} |-> IF h = lb.height THEN lb ELSE s[h]]

\* BTreeMap::keys (store.rs:58): the keys, in ascending order.
RECURSIVE Ascending(_)
Ascending(S) ==
    IF S = {} THEN <<>>
    ELSE LET least == CHOOSE x \in S : \A y \in S : x <= y
         IN <<least>> \o Ascending(S \ {least})

StoreKeys(s) == Ascending(DOMAIN s)

\* Store::all (store.rs:53-55): the values, in key order.
StoreAll(s) == [i \in 1..Len(StoreKeys(s)) |-> s[StoreKeys(s)[i]]]

\* keys().next() in the place of keys().last().
StoreLatestHeight_first(s) ==
    IF StoreKeys(s) = <<>> THEN <<>> ELSE <<StoreKeys(s)[1]>>

\* Store::latest_height (store.rs:57-59): the last key of the ordered map.
StoreLatestHeight(s) ==
    IF StoreKeys(s) = <<>> THEN <<>> ELSE <<StoreKeys(s)[Len(StoreKeys(s))]>>

\* Store::latest (store.rs:61-63): latest_height().and_then(|h| self.get(h)).
StoreLatest(s) ==
    IF StoreLatestHeight(s) = <<>> THEN <<>> ELSE StoreGet(s, StoreLatestHeight(s)[1])

\* A loop that stops after its first element.
add_trusted_states_first_only(s, trusted_states) ==
    IF trusted_states = <<>> THEN s ELSE StoreAdd(s, Head(trusted_states))

\* State::add_trusted_states (demuxer.rs:26-30): add each element, in order.
RECURSIVE add_trusted_states(_, _)
add_trusted_states(s, trusted_states) ==
    IF trusted_states = <<>> THEN s
    ELSE add_trusted_states(StoreAdd(s, Head(trusted_states)), Tail(trusted_states))


\* ------------------------------------------------- the Store's two handles
\* Store::split (store.rs:31-41): one Arc<RwLock<Store>> shared by the
\* reader, its clones and the writer.  The lock is free, or held by the
\* writer, or held by some readers.
Unlocked == [writer |-> FALSE, readers |-> {}]

\* A read that does not wait for the writer.
ReadLockFree_always(l) == TRUE

\* RwLock::read as used by StoreReader (store.rs:73, 77, 81, 86): granted
\* while no writer holds the lock.
ReadLockFree(l) == ~l.writer

\* RwLock::write as used by StoreReadWriter::add (store.rs:102): granted
\* while nobody holds the lock.
WriteLockFree(l) == ~l.writer /\ l.readers = {}

\* StoreReadWriter::add (store.rs:101-104) is not running; `block` is the
\* block of the add that returned last.
WriterIdle(last) == [pc |-> "idle", block |-> last, before |-> << >>]

\* A block whose insertion into the map is under way.
Torn(lb) == [height |-> lb.height, content |-> "torn"]

\* What a read returned to the handle that made it.
NoObservation == [handle |-> 0, op |-> "None", height |-> -1, seen |-> << >>]
Observation(r, op, h, seen) == [handle |-> r, op |-> op, height |-> h, seen |-> seen]

\* The heights and blocks the store's direct clients use.
StoreHeights == 0..MaxStoreHeight
StoreBlocks == [height : StoreHeights, content : Contents]

\* ---------------------------------------------------- Io and the Verifier
\* Io (design 4.3): fetch(height) returns the block the node serves at that
\* height, or an IoError.  The node serves one block per height.
IoBlock(h) == [height |-> h, content |-> "a"]

\* Io's answer for a height: the environment's choice; in a call that repeats
\* the one before it against a deterministic Io, the answer given before.
IoAnswers(h) ==
    IF first.kind # "None" /\ h \in DOMAIN io_answers THEN {io_answers[h]}
    ELSE BOOLEAN

IoRemember(h, io_ok) ==
    [k \in (DOMAIN io_answers) \cup {h} |-> IF k = h THEN io_ok ELSE io_answers[k]]

\* Verifier (design 4.1): a pure function of the candidate and the trusted
\* reference.  Check 2 rejects a candidate that is not strictly above the
\* trusted height; every other outcome is the environment's, fixed per pair
\* for the duration of a call (between calls time passes, and check 2 also
\* reads the clock).
Accept == "Accept"
VerifierAnswers(lb, ts) ==
    IF lb.height <= ts.height THEN {OtherRejection}
    ELSE IF <<ts, lb>> \in DOMAIN verdicts THEN {verdicts[<<ts, lb>>]}
    ELSE {Accept} \cup VerifierErrors

Remember(lb, ts, v) ==
    IF <<ts, lb>> \in DOMAIN verdicts THEN verdicts
    ELSE [p \in (DOMAIN verdicts) \cup {<<ts, lb>>} |->
             IF p = <<ts, lb>> THEN v ELSE verdicts[p]]

\* One decision of the Verifier (design 4.1) on a synthetic candidate: the
\* outcome of the checks that do not count voting power, the voting power
\* of the reference validator set (total), the part of it that signed the
\* candidate's commit (signed) and the trust threshold as a fraction.
TrustThresholds == {<<1, 3>>, <<1, 2>>, <<2, 3>>}
NoCheck ==
    [hashes_ok |-> TRUE, time_ok |-> TRUE, commit_ok |-> TRUE,
     signed |-> 0, total |-> 0, threshold |-> <<1, 3>>, verdict |-> "None"]
CheckInputs ==
    {c \in [hashes_ok : BOOLEAN, time_ok : BOOLEAN, commit_ok : BOOLEAN,
            signed : 0..MaxPower, total : 1..MaxPower,
            threshold : TrustThresholds, verdict : {"None"}] :
        c.signed <= c.total}

\* Check 3 of design 4.1: the signed voting power exceeds trust_threshold of
\* the reference set's total power.
ExceedsThreshold(signed, total, threshold) ==
    signed * threshold[2] > total * threshold[1]

\* validate (design 4.1): checks 1 to 4 in their order, each failing with
\* its own variant.
VerifierValidate(c) ==
    IF ~c.hashes_ok THEN OtherRejection
    ELSE IF ~c.time_ok THEN OtherRejection
    ELSE IF ~ExceedsThreshold(c.signed, c.total, c.threshold) THEN VotingPower
    ELSE IF ~c.commit_ok THEN OtherRejection
    ELSE Accept

\* ----------------------------------------------------------------- Demuxer
\* The commented-out line brought back with the only writer State has.
add_valid_light_block_trusted(s, light_block) == StoreAdd(s, light_block)

\* State::add_valid_light_block (demuxer.rs:32-34): the body is a comment.
add_valid_light_block(s, light_block) == s

\* The commented-out line brought back with the only writer State has.
add_fetched_light_block_trusted(s, light_block) == StoreAdd(s, light_block)

\* State::add_fetched_light_block (demuxer.rs:36-38): the body is a comment.
add_fetched_light_block(s, light_block) == s

\* The Verifier's rejection is dropped and the candidate returned as valid.
validate_light_block_accepts(lb, ts, v) == Ok(<<lb>>)

\* map_err that loses the Verifier's error variant.
validate_light_block_lossy(lb, ts, v) ==
    IF v = Accept THEN Ok(<<lb>>) ELSE Err(DemuxerErrorVerifier(VotingPower))

\* Demuxer::validate_light_block (demuxer.rs:102-125): the verifier's answer v,
\* a rejection wrapped as DemuxerError::Verifier; add_valid_light_block
\* (demuxer.rs:32-34) has an empty body.
validate_light_block(lb, ts, v) ==
    IF v = Accept THEN Ok(<<lb>>) ELSE Err(DemuxerErrorVerifier(v))

\* Demuxer::fetch_light_block (demuxer.rs:127-138): Io's answer, a failure
\* wrapped as DemuxerError::Io; add_fetched_light_block (demuxer.rs:36-38) has
\* an empty body.
fetch_light_block(h, io_ok) ==
    IF io_ok THEN Ok(<<IoBlock(h)>>) ELSE Err(DemuxerErrorIo(h))

\* What handle_request makes of a callee's result: a response for the
\* scheduler, or a fatal error that leaves the drain loop.
Respond(r) == [resp |-> r, fatal |-> NoResult]
Fatal(e) == [resp |-> NoResponse, fatal |-> e]

\* handle_request, GetLightBlock arm (demuxer.rs:145-147).
HandleGetLightBlock(r) ==
    IF r.kind = "Ok" THEN Respond(ResponseLightBlock(r.states[1])) ELSE Fatal(r)

\* Every error of the nested call is handed to the scheduler as a rejection.
HandleVerifyLightBlock_swallow(r) ==
    IF r.kind = "Ok" THEN Respond(ResponseVerifiedOk(r.states))
    ELSE Respond(ResponseVerifiedErr(r.err.cause))

\* handle_request, VerifyLightBlock arm (demuxer.rs:153-157).
HandleVerifyLightBlock(r) ==
    IF r.kind = "Ok" THEN Respond(ResponseVerifiedOk(r.states))
    ELSE IF r.err.kind = "Verifier" THEN Respond(ResponseVerifiedErr(r.err.cause))
    ELSE Fatal(r)

\* The rejection arm copied from the VerifyLightBlock arm: Verified(Err(err)).
HandleValidateLightBlock_verified(r) ==
    IF r.kind = "Ok" THEN Respond(ResponseValidatedOk(r.states[1]))
    ELSE IF r.err.kind = "Verifier" THEN Respond(ResponseVerifiedErr(r.err.cause))
    ELSE Fatal(r)

\* The arm that turns a rejection into a response is missing.
HandleValidateLightBlock_fatal(r) ==
    IF r.kind = "Ok" THEN Respond(ResponseValidatedOk(r.states[1])) ELSE Fatal(r)

\* handle_request, ValidateLightBlock arm (demuxer.rs:163-167).
HandleValidateLightBlock(r) ==
    IF r.kind = "Ok" THEN Respond(ResponseValidatedOk(r.states[1]))
    ELSE IF r.err.kind = "Verifier" THEN Respond(ResponseValidatedErr(r.err.cause))
    ELSE Fatal(r)

\* The generator's error wrapped in the wrong variant.
run_scheduler_verifier(complete) ==
    IF complete.kind = "Ok" THEN Ok(complete.states)
    ELSE Err(DemuxerErrorVerifier(complete.cause))

\* run_scheduler's last line (demuxer.rs:184): the generator's own result,
\* a SchedulerError wrapped as DemuxerError::Scheduler.
run_scheduler(complete) ==
    IF complete.kind = "Ok" THEN Ok(complete.states)
    ELSE Err(DemuxerErrorScheduler(complete.cause))

\* verify_height / verify_light_block after run_scheduler returned
\* (demuxer.rs:70-77, 92-99): `?` passes an error on; TrustedStates(list) is
\* committed and returned.
VerifyCommit(s, out) ==
    IF out.kind = "Ok" THEN add_trusted_states(s, out.states) ELSE s

\* Only the newest trusted state is returned.
VerifyReturn_last_only(out) ==
    IF out.kind = "Ok" THEN Ok(<<out.states[Len(out.states)]>>) ELSE out

VerifyReturn(out) ==
    IF out.kind = "Ok" THEN Ok(out.states) ELSE out

\* --------------------------------------------------------------- Scheduler
\* The scheduler's own result.
SchedulerRunning == [kind |-> "None", states |-> <<>>, cause |-> "None"]
TrustedStates(list) == [kind |-> "Ok", states |-> list, cause |-> "None"]
SchedulerError(e) == [kind |-> "Err", states |-> <<>>, cause |-> e]

\* The midpoint with the division binding tighter than the sum.
Pivot_precedence(trusted_height, target_height) ==
    trusted_height + (target_height \div 2)

\* Bisection midpoint (design 4.2, 9): the arithmetic midpoint.
Pivot(trusted_height, target_height) == (trusted_height + target_height) \div 2

CanBisect(trusted_height, target_height) == target_height - trusted_height > 1

\* The generator's local state when it is first resumed.
SchedulerStart(input) ==
    [pc |-> "start", trusted |-> input.trusted_state,
     target |-> input.light_block, acc |-> <<>>]

Yield(s, pc, request) ==
    [sched |-> [s EXCEPT !.pc = pc], yield |-> request, complete |-> SchedulerRunning]
Complete(s, res) ==
    [sched |-> [s EXCEPT !.pc = "done"], yield |-> NoRequest, complete |-> res]

\* How the scheduler reacts to a rejection (design 4.2, 7): insufficient
\* voting power bisects while the interval can shrink, anything else ends
\* the run.
OnRejection(s, e) ==
    IF e = VotingPower /\ CanBisect(s.trusted.height, s.target.height)
    THEN Yield(s, "pivot", GetLightBlock(Pivot(s.trusted.height, s.target.height)))
    ELSE Complete(s, SchedulerError(e))

\* One resumption of the generator (design 4.2): from its local state s, its
\* input and the response it is handed, to the next request or its result.
SchedulerResume(s, input, response) ==
    CASE s.pc = "start" ->
           IF input.kind = "VerifyHeight"
           THEN Yield(s, "target", GetLightBlock(input.height))
           ELSE Yield(s, "validate", ValidateLightBlock(s.target, s.trusted))
      [] s.pc = "target" ->
           LET lb == response.blocks[1] IN
           Yield([s EXCEPT !.target = lb], "validate", ValidateLightBlock(lb, s.trusted))
      [] s.pc = "validate" ->
           IF response.ok
           THEN Complete(s, TrustedStates(Append(s.acc, response.blocks[1])))
           ELSE OnRejection(s, response.err)
      [] s.pc = "pivot" ->
           Yield(s, "verify", VerifyLightBlock(response.blocks[1], s.trusted))
      [] s.pc = "verify" ->
           IF response.ok
           THEN LET anchor == response.blocks[Len(response.blocks)] IN
                Yield([s EXCEPT !.acc = @ \o response.blocks, !.trusted = anchor],
                      "validate", ValidateLightBlock(s.target, anchor))
           ELSE Complete(s, SchedulerError(response.err))

\* ------------------------------------------------------------- activations
\* SchedulerInput (demuxer.rs:64-68, 86-90).
InputVerifyHeight(height, trusted_state) ==
    [kind |-> "VerifyHeight", height |-> height,
     light_block |-> NoBlock, trusted_state |-> trusted_state]
InputVerifyLightBlock(light_block, trusted_state) ==
    [kind |-> "VerifyLightBlock", height |-> light_block.height,
     light_block |-> light_block, trusted_state |-> trusted_state]

\* The generator is started from the newest block the trusted store holds
\* instead of the caller's trusted_state.
NewFrame_latest(input) ==
    LET from == IF StoreLatest(store) = << >> THEN input
                ELSE [input EXCEPT !.trusted_state = StoreLatest(store)[1]]
    IN [input |-> from, sched |-> SchedulerStart(from),
        req |-> NoRequest, resp |-> ResponseInit, out |-> NoResult,
        answered |-> NoRequest, n_req |-> 0, n_resp |-> 0, n_resumed |-> 0]

\* run_scheduler entered (demuxer.rs:175-180): a fresh generator, to be
\* resumed first with SchedulerResponse::Init.  n_req, n_resp and n_resumed
\* count the requests the generator yielded, the responses handle_request
\* produced for it and its resumptions; `answered` is the request the
\* pending response answers.
NewFrame(input) ==
    [input |-> input, sched |-> SchedulerStart(input),
     req |-> NoRequest, resp |-> ResponseInit, out |-> NoResult,
     answered |-> NoRequest, n_req |-> 0, n_resp |-> 0, n_resumed |-> 0]

Top == stack[Len(stack)]
Below == SubSeq(stack, 1, Len(stack) - 1)
Running(f) == f.out.kind = "None"

\* The drain loop takes what handle_request returned (demuxer.rs:180-182):
\* a response is kept for the next resumption, an error leaves run_scheduler.
Deliver(f, h) ==
    IF h.fatal.kind = "None"
    THEN [f EXCEPT !.req = NoRequest, !.resp = h.resp, !.answered = f.req,
                   !.n_resp = @ + 1]
    ELSE [f EXCEPT !.req = NoRequest, !.out = h.fatal]

Init ==
    /\ store = << >>
    /\ stack = << >>
    /\ result = NoResult
    /\ verdicts = << >>
    /\ calls = 0
    /\ call = [input |-> InputVerifyHeight(0, NoBlock), store |-> << >>]
    /\ io_failed = NoError
    /\ io_answers = << >>
    /\ first = NoResult
    /\ single = NoResult
    /\ rwlock = Unlocked
    /\ writer = WriterIdle(NoBlock)
    /\ handles = {1}
    /\ observed = NoObservation
    /\ check = NoCheck

\* The Demuxer is idle and the caller may make another call.
Idle == stack = << >> /\ calls < MaxCalls

\* A scheduler-driven operation is entered: run_scheduler(input).  The
\* histories of the previous call are reset.
Enter(input) ==
    /\ calls' = calls + 1
    /\ stack' = <<NewFrame(input)>>
    /\ result' = NoResult
    /\ call' = [input |-> input, store |-> store]
    /\ io_failed' = NoError
    /\ verdicts' = << >>
    /\ io_answers' = << >>
    /\ first' = NoResult
    /\ single' = NoResult
    /\ UNCHANGED <<store, handle_vars, check>>

\* Demuxer::verify_height called by the caller (demuxer.rs:58-70).
verify_height(height, trusted_state) ==
    /\ Idle
    /\ Enter(InputVerifyHeight(height, trusted_state))

\* Demuxer::verify_light_block called by the caller (demuxer.rs:80-92).
verify_light_block(light_block, trusted_state) ==
    /\ Idle
    /\ Enter(InputVerifyLightBlock(light_block, trusted_state))

\* drain resumes the generator with the pending response (demuxer.rs:180);
\* when the generator completes, run_scheduler returns (demuxer.rs:184).
Resume ==
    /\ stack # << >>
    /\ Running(Top)
    /\ Top.resp.kind # "None"
    /\ LET r == SchedulerResume(Top.sched, Top.input, Top.resp) IN
       stack' = Below \o
           <<[Top EXCEPT !.sched = r.sched,
                         !.resp = NoResponse,
                         !.req = r.yield,
                         !.n_resumed = @ + 1,
                         !.n_req = IF r.yield.kind = "None" THEN @ ELSE @ + 1,
                         !.out = IF r.complete.kind = "None" THEN NoResult
                                 ELSE run_scheduler(r.complete)]>>
    /\ UNCHANGED <<store, result, verdicts, calls, call, io_failed, io_answers, first>>
    /\ UNCHANGED <<single, handle_vars, check>>

\* handle_request(GetLightBlock(height)) (demuxer.rs:145-147).
AnswerGetLightBlock ==
    /\ stack # << >>
    /\ Running(Top)
    /\ Top.req.kind = "GetLightBlock"
    /\ \E io_ok \in IoAnswers(Top.req.height) :
         LET r == fetch_light_block(Top.req.height, io_ok) IN
         /\ stack' = Below \o <<Deliver(Top, HandleGetLightBlock(r))>>
         /\ io_failed' = IF io_ok THEN io_failed ELSE r.err
         /\ io_answers' = IoRemember(Top.req.height, io_ok)
         /\ store' = IF io_ok THEN add_fetched_light_block(store, r.states[1]) ELSE store
    /\ UNCHANGED <<result, verdicts, calls, call, first, single, handle_vars, check>>

\* handle_request(ValidateLightBlock{..}) (demuxer.rs:159-167).
AnswerValidateLightBlock ==
    /\ stack # << >>
    /\ Running(Top)
    /\ Top.req.kind = "ValidateLightBlock"
    /\ \E v \in VerifierAnswers(Top.req.light_block, Top.req.trusted_state) :
         LET r == validate_light_block(Top.req.light_block, Top.req.trusted_state, v) IN
         /\ stack' = Below \o <<Deliver(Top, HandleValidateLightBlock(r))>>
         /\ verdicts' = Remember(Top.req.light_block, Top.req.trusted_state, v)
         /\ store' = IF v = Accept THEN add_valid_light_block(store, r.states[1]) ELSE store
    /\ UNCHANGED <<result, calls, call, io_failed, io_answers, first>>
    /\ UNCHANGED <<single, handle_vars, check>>

\* handle_request(VerifyLightBlock{..}) calls verify_light_block
\* (demuxer.rs:149-153), which enters a nested scheduler run (demuxer.rs:92).
AnswerVerifyLightBlock ==
    /\ stack # << >>
    /\ Running(Top)
    /\ Top.req.kind = "VerifyLightBlock"
    /\ Len(stack) < MaxDepth
    /\ stack' = Append(stack,
          NewFrame(InputVerifyLightBlock(Top.req.light_block, Top.req.trusted_state)))
    /\ UNCHANGED <<store, result, verdicts, calls, call, io_failed, io_answers, first>>
    /\ UNCHANGED <<single, handle_vars, check>>

\* The nested verify_light_block returns into handle_request
\* (demuxer.rs:92-99, then 153-157).
ReturnToHandler ==
    /\ Len(stack) > 1
    /\ ~Running(Top)
    /\ store' = VerifyCommit(store, Top.out)
    /\ stack' = SubSeq(stack, 1, Len(stack) - 2) \o
          <<Deliver(stack[Len(stack) - 1], HandleVerifyLightBlock(VerifyReturn(Top.out)))>>
    /\ UNCHANGED <<result, verdicts, calls, call, io_failed, io_answers, first>>
    /\ UNCHANGED <<single, handle_vars, check>>

\* The outermost verify_height / verify_light_block returns to the caller
\* (demuxer.rs:70-77, 92-99).
ReturnToCaller ==
    /\ Len(stack) = 1
    /\ ~Running(Top)
    /\ store' = VerifyCommit(store, Top.out)
    /\ result' = VerifyReturn(Top.out)
    /\ stack' = << >>
    /\ UNCHANGED <<verdicts, calls, call, io_failed, io_answers, first>>
    /\ UNCHANGED <<single, handle_vars, check>>

\* The trusted states the caller starts from: blocks of the node's chain.
CallerTrusted == {IoBlock(h) : h \in Heights}

\* Demuxer::validate_light_block called by the caller (demuxer.rs:102-125):
\* one Verifier decision, add_valid_light_block on success.
CallValidateLightBlock(light_block, trusted_state) ==
    /\ Idle
    /\ \E v \in VerifierAnswers(light_block, trusted_state) :
         LET r == validate_light_block(light_block, trusted_state, v) IN
         /\ single' = r
         /\ store' = IF r.kind = "Ok" THEN add_valid_light_block(store, r.states[1])
                     ELSE store
    /\ calls' = calls + 1
    /\ UNCHANGED <<stack, result, verdicts, call, io_failed, io_answers, first>>
    /\ UNCHANGED <<handle_vars, check>>

\* Demuxer::fetch_light_block called by the caller (demuxer.rs:127-138): one
\* Io request, add_fetched_light_block on success.
CallFetchLightBlock(height) ==
    /\ Idle
    /\ \E io_ok \in BOOLEAN :
         LET r == fetch_light_block(height, io_ok) IN
         /\ single' = r
         /\ store' = IF r.kind = "Ok" THEN add_fetched_light_block(store, r.states[1])
                     ELSE store
    /\ calls' = calls + 1
    /\ UNCHANGED <<stack, result, verdicts, call, io_failed, io_answers, first>>
    /\ UNCHANGED <<handle_vars, check>>

Next ==
    \/ \E h \in Heights, ts \in CallerTrusted : verify_height(h, ts)
    \/ \E lb \in LightBlock, ts \in CallerTrusted : verify_light_block(lb, ts)
    \/ \E lb \in LightBlock, ts \in CallerTrusted : CallValidateLightBlock(lb, ts)
    \/ \E h \in Heights : CallFetchLightBlock(h)
    \/ Resume
    \/ AnswerGetLightBlock
    \/ AnswerValidateLightBlock
    \/ AnswerVerifyLightBlock
    \/ ReturnToHandler
    \/ ReturnToCaller

Spec == Init /\ [][Next]_vars

\* The steps of a call in progress.  The Demuxer is one synchronous thread
\* of control: while a call is in progress and Io and the Verifier return,
\* its next step is taken.
Step ==
    \/ Resume
    \/ AnswerGetLightBlock
    \/ AnswerValidateLightBlock
    \/ AnswerVerifyLightBlock
    \/ ReturnToHandler
    \/ ReturnToCaller

FairSpec == Spec /\ WF_vars(Step)

\* ---------------------------------------------------- the same call again
\* The caller makes the call that has just returned once more: the same
\* target, trusted_state and options (demuxer.rs:58-70, 80-92), against the
\* store as the first call left it and an Io and a Verifier that answer as
\* they did.
Repeat ==
    /\ stack = << >>
    /\ result.kind # "None"
    /\ first.kind = "None"
    /\ stack' = <<NewFrame(call.input)>>
    /\ first' = result
    /\ result' = NoResult
    /\ call' = [call EXCEPT !.store = store]
    /\ io_failed' = NoError
    /\ UNCHANGED <<store, verdicts, io_answers, calls, single, handle_vars, check>>

RepeatNext ==
    \/ Next
    \/ Repeat

RepeatSpec == Init /\ [][RepeatNext]_vars

\* ------------------------------------------- the Store used through handles
\* StoreReadWriter::add entered (store.rs:102): the write lock is taken.
WriterLock(light_block) ==
    /\ writer.pc = "idle"
    /\ WriteLockFree(rwlock)
    /\ rwlock' = [rwlock EXCEPT !.writer = TRUE]
    /\ writer' = [pc |-> "locked", block |-> light_block, before |-> store]
    /\ observed' = NoObservation
    /\ UNCHANGED <<store, handles, demuxer_vars, check>>

\* Store::add under the lock (store.rs:103, 49-51): the insertion has begun;
\* the entry for the height is in the map, its block is not yet whole.
InsertBegin ==
    /\ writer.pc = "locked"
    /\ store' = StoreAdd(store, Torn(writer.block))
    /\ writer' = [writer EXCEPT !.pc = "torn"]
    /\ observed' = NoObservation
    /\ UNCHANGED <<rwlock, handles, demuxer_vars, check>>

\* Store::add under the lock (store.rs:103, 49-51): the insertion is done.
InsertEnd ==
    /\ writer.pc = "torn"
    /\ store' = StoreAdd(store, writer.block)
    /\ writer' = [writer EXCEPT !.pc = "inserted"]
    /\ observed' = NoObservation
    /\ UNCHANGED <<rwlock, handles, demuxer_vars, check>>

\* StoreReadWriter::add returns (store.rs:104): the guard is dropped.
WriterUnlock ==
    /\ writer.pc = "inserted"
    /\ rwlock' = [rwlock EXCEPT !.writer = FALSE]
    /\ writer' = WriterIdle(writer.block)
    /\ observed' = NoObservation
    /\ UNCHANGED <<store, handles, demuxer_vars, check>>

\* StoreReader::clone (store.rs:66, the derived Clone): one more handle on
\* the same Arc.
CloneReader ==
    /\ Cardinality(handles) < MaxReaders
    /\ handles' = handles \cup {Cardinality(handles) + 1}
    /\ observed' = NoObservation
    /\ UNCHANGED <<store, rwlock, writer, demuxer_vars, check>>

\* A read entered on handle r: self.store.read() (store.rs:73, 77, 81, 86).
ReaderLock(r) ==
    /\ r \in handles
    /\ r \notin rwlock.readers
    /\ ReadLockFree(rwlock)
    /\ rwlock' = [rwlock EXCEPT !.readers = @ \cup {r}]
    /\ observed' = NoObservation
    /\ UNCHANGED <<store, writer, handles, demuxer_vars, check>>

\* The read is made under the read lock and returns; the guard is dropped.
ReaderReturn(r, op, h, seen) ==
    /\ r \in rwlock.readers
    /\ rwlock' = [rwlock EXCEPT !.readers = @ \ {r}]
    /\ observed' = Observation(r, op, h, seen)
    /\ UNCHANGED <<store, writer, handles, demuxer_vars, check>>

\* StoreReader::get (store.rs:72-74).
ReaderGet(r, height) == ReaderReturn(r, "get", height, StoreGet(store, height))

\* StoreReader::latest_height (store.rs:76-78).
ReaderLatestHeight(r) == ReaderReturn(r, "latest_height", -1, StoreLatestHeight(store))

\* StoreReader::latest (store.rs:80-82).
ReaderLatest(r) == ReaderReturn(r, "latest", -1, StoreLatest(store))

\* StoreReader::all (store.rs:84-92).
ReaderAll(r) == ReaderReturn(r, "all", -1, StoreAll(store))

StoreNext ==
    \/ \E lb \in StoreBlocks : WriterLock(lb)
    \/ InsertBegin
    \/ InsertEnd
    \/ WriterUnlock
    \/ CloneReader
    \/ \E r \in handles : ReaderLock(r)
    \/ \E r \in handles, h \in StoreHeights : ReaderGet(r, h)
    \/ \E r \in handles : ReaderLatestHeight(r)
    \/ \E r \in handles : ReaderLatest(r)
    \/ \E r \in handles : ReaderAll(r)

\* The store in the hands of its writer and its readers.
StoreSpec == Init /\ [][StoreNext]_vars

\* ------------------------------------------------ one Verifier decision
VerifierInit ==
    /\ store = << >>
    /\ stack = << >>
    /\ result = NoResult
    /\ verdicts = << >>
    /\ calls = 0
    /\ call = [input |-> InputVerifyHeight(0, NoBlock), store |-> << >>]
    /\ io_failed = NoError
    /\ io_answers = << >>
    /\ first = NoResult
    /\ single = NoResult
    /\ rwlock = Unlocked
    /\ writer = WriterIdle(NoBlock)
    /\ handles = {1}
    /\ observed = NoObservation
    /\ check \in CheckInputs

\* Verifier::process on the candidate (design 4.1).
Validate ==
    /\ check.verdict = "None"
    /\ check' = [check EXCEPT !.verdict = VerifierValidate(check)]
    /\ UNCHANGED <<store, demuxer_vars, handle_vars>>

VerifierSpec == VerifierInit /\ [][Validate]_vars

\* ------------------------------------------------------------------ claims
Returned == stack = << >> /\ result.kind # "None"
Last(list) == list[Len(list)]
StrictlyIncreasing(list) ==
    \A i \in 1..(Len(list) - 1) : list[i].height < list[i + 1].height

\* The Verifier was asked about lb against ts and accepted it.
VerifiedAgainst(lb, ts) ==
    /\ <<ts, lb>> \in DOMAIN verdicts
    /\ verdicts[<<ts, lb>>] = Accept

\* C1: if a top-level verify_height / verify_light_block call returns an
\* error, the trusted store holds exactly the entries it held when the call
\* started.
C1_ErrorCommitsNothing ==
    (Returned /\ result.kind = "Err") => store = call.store

\* C2: when a run completes with TrustedStates(list), the activation returns
\* exactly that list, and by then the store holds, for every height of the
\* list, the last element of the list with that height (the elements were
\* added in list order), and every other height is as before.
C2_CommittedThenReturned ==
    [][(/\ stack # << >>
        /\ Top.out.kind = "Ok"
        /\ Len(stack') < Len(stack))
       => LET list == Top.out.states
              given == IF Len(stack) = 1 THEN result'
                       ELSE LET r == stack'[Len(stack')].resp IN
                            IF r.kind = "Verified" /\ r.ok THEN Ok(r.blocks) ELSE NoResult
          IN /\ given = Ok(list)
             /\ \A i \in 1..Len(list) :
                  /\ StoreGet(store', list[i].height) # << >>
                  /\ (\A j \in (i + 1)..Len(list) : list[j].height # list[i].height)
                       => StoreGet(store', list[i].height) = <<list[i]>>
             /\ \A h \in Heights :
                  (\A i \in 1..Len(list) : list[i].height # h)
                       => StoreGet(store', h) = StoreGet(store, h)]_vars

\* C2 witness: a call returned a chain of several blocks, all in the store.
C2_Witness ==
    /\ Returned
    /\ result.kind = "Ok"
    /\ Len(result.states) >= 2
    /\ \A i \in 1..Len(result.states) :
         StoreGet(store, result.states[i].height) = <<result.states[i]>>

\* C3: once Io has failed while a GetLightBlock request was answered, the
\* innermost activation has left its drain loop with DemuxerError::Io
\* carrying that IoError, no request is outstanding to be handled, no
\* scheduler has a response to be resumed with, and the call returns that
\* error to the caller.
C3_IoFailureEndsCall ==
    io_failed.kind = "Io" =>
        IF stack = << >> THEN result = Err(io_failed)
        ELSE /\ Top.out = Err(io_failed)
             /\ Top.req.kind = "None"
             /\ \A i \in 1..Len(stack) : stack[i].resp.kind = "None"

\* C3 witness: Io failed on a pivot fetched inside a nested run, and the
\* call returned that IoError.
C3_Witness ==
    /\ Returned
    /\ io_failed.kind = "Io"
    /\ result = Err(io_failed)
    /\ call.input.height = MaxHeight
    /\ call.input.trusted_state.height = 0
    /\ io_failed.height = 1

\* The Verifier's answer about lb against ts, once given.
VerdictGiven(lb, ts) ==
    IF lb.height <= ts.height THEN OtherRejection ELSE verdicts[<<ts, lb>>]

\* C4: a run is never ended while its ValidateLightBlock request is
\* answered; the response its scheduler is resumed with is Validated(Ok) of
\* the candidate when the Verifier accepted and Validated(Err(e)) carrying
\* the Verifier's error e when it rejected.
C4_RejectionIsAResponse ==
    \A i \in 1..Len(stack) :
        LET f == stack[i]
            lb == f.answered.light_block
            ts == f.answered.trusted_state
        IN f.sched.pc = "validate" =>
             /\ Running(f)
             /\ f.resp.kind # "None" =>
                  /\ f.answered.kind = "ValidateLightBlock"
                  /\ f.resp = IF VerdictGiven(lb, ts) = Accept
                              THEN ResponseValidatedOk(lb)
                              ELSE ResponseValidatedErr(VerdictGiven(lb, ts))

\* C4 witness: the Verifier rejected and the scheduler is about to be
\* resumed with Validated(Err(e)).
C4_Witness ==
    /\ stack # << >>
    /\ Running(Top)
    /\ Top.sched.pc = "validate"
    /\ Top.resp \in {ResponseValidatedErr(e) : e \in VerifierErrors}

\* C5: when a nested verify_light_block run, started to answer a
\* VerifyLightBlock request, ends because the Verifier rejected a block, the
\* outer run goes on: its scheduler is resumed with Verified(Err(e)).
C5_NestedRejectionResumesOuter ==
    [][(/\ Len(stack) >= 2
        /\ Top.out.kind = "Err"
        /\ Top.out.err.kind = "Scheduler"
        /\ Top.out.err.cause \in VerifierErrors)
       => /\ Len(stack') = Len(stack) - 1
          /\ Running(stack'[Len(stack')])
          /\ stack'[Len(stack')].resp = ResponseVerifiedErr(Top.out.err.cause)]_vars

\* C6: a scheduler is bisecting (has asked for a pivot block or for its
\* verification) only after the Verifier rejected its current target against
\* its current trusted state for insufficient voting power, and the pivot is
\* strictly between the two heights; after any other rejection, or when the
\* interval cannot shrink, the run has ended with that error.  A run that has
\* ended has no request outstanding and no response to be resumed with.
C6_OnlyVotingPowerBisects ==
    \A i \in 1..Len(stack) :
        LET f == stack[i]
            s == f.sched
            bisectable == /\ VerdictGiven(s.target, s.trusted) = VotingPower
                          /\ CanBisect(s.trusted.height, s.target.height)
        IN /\ s.pc \in {"pivot", "verify"} =>
                /\ bisectable
                /\ f.req.kind # "None" =>
                     /\ f.req.kind = IF s.pc = "pivot" THEN "GetLightBlock"
                                     ELSE "VerifyLightBlock"
                     /\ s.trusted.height < f.req.height
                     /\ f.req.height < s.target.height
           /\ (s.pc = "done" /\ f.out.kind = "Err") =>
                /\ ~bisectable
                /\ VerdictGiven(s.target, s.trusted) \in VerifierErrors
                /\ f.out.err = DemuxerErrorScheduler(VerdictGiven(s.target, s.trusted))
           /\ ~Running(f) => (f.req.kind = "None" /\ f.resp.kind = "None")

\* C6 witness: a run ended on a rejection other than insufficient voting
\* power although its interval could have been bisected.
C6_Witness ==
    /\ stack # << >>
    /\ Top.sched.pc = "done"
    /\ Top.out = Err(DemuxerErrorScheduler(OtherRejection))
    /\ CanBisect(Top.sched.trusted.height, Top.sched.target.height)
    /\ Top.sched.acc # << >>

\* The response answers the request.
ResponseAnswers(resp, req) ==
    CASE req.kind = "GetLightBlock" ->
           /\ resp.kind = "LightBlock"
           /\ Len(resp.blocks) = 1
           /\ resp.blocks[1].height = req.height
      [] req.kind = "ValidateLightBlock" ->
           /\ resp.kind = "Validated"
           /\ resp.ok => resp.blocks = <<req.light_block>>
      [] req.kind = "VerifyLightBlock" ->
           /\ resp.kind = "Verified"
           /\ resp.ok => (resp.blocks # << >> /\ Last(resp.blocks) = req.light_block)
      [] OTHER -> FALSE

\* C7: in every activation requests and responses alternate: never a
\* request outstanding and a response pending together, and exactly one of
\* them while the run goes on; a pending response answers the request the
\* scheduler yielded last; the scheduler has been resumed once for Init and
\* once per answered request; an activation below the innermost one is
\* suspended on the VerifyLightBlock request its nested run is answering.
C7_RequestsAndResponsesAlternate ==
    \A i \in 1..Len(stack) :
        LET f == stack[i] IN
        /\ ~(f.req.kind # "None" /\ f.resp.kind # "None")
        /\ Running(f) => (f.req.kind # "None" \/ f.resp.kind # "None")
        /\ f.resp.kind = "Init" => (f.n_resumed = 0 /\ f.n_req = 0 /\ f.n_resp = 0)
        /\ f.resp.kind \notin {"None", "Init"} =>
             /\ ResponseAnswers(f.resp, f.answered)
             /\ f.n_req = f.n_resp
             /\ f.n_resumed = f.n_req
        /\ f.req.kind # "None" =>
             /\ f.n_req = f.n_resp + 1
             /\ f.n_resumed = f.n_req
        /\ i < Len(stack) =>
             /\ Running(f)
             /\ f.req.kind = "VerifyLightBlock"
             /\ stack[i + 1].input =
                    InputVerifyLightBlock(f.req.light_block, f.req.trusted_state)

\* C7 witness: a nested run has its second request outstanding while the
\* outer run is suspended on its VerifyLightBlock request.
C7_Witness ==
    /\ Len(stack) >= 2
    /\ Top.req.kind # "None"
    /\ Top.n_req >= 2
    /\ stack[1].req.kind = "VerifyLightBlock"
    /\ stack[1].n_req = stack[1].n_resp + 1

\* list is a chain from ts: strictly increasing heights, its first element
\* verified against ts and every later element against the one before it.
Chain(ts, list) ==
    /\ list # << >>
    /\ StrictlyIncreasing(list)
    /\ VerifiedAgainst(list[1], ts)
    /\ \A i \in 1..(Len(list) - 1) : VerifiedAgainst(list[i + 1], list[i])

\* C8: the list a successful verify_height / verify_light_block returns (to
\* the caller, or to handle_request for a nested run) has strictly
\* increasing heights, its first element was verified against the input
\* trusted_state and each later element against the element before it.
C8_ReturnedChain ==
    /\ (Returned /\ result.kind = "Ok") =>
           Chain(call.input.trusted_state, result.states)
    /\ \A i \in 1..Len(stack) :
           stack[i].out.kind = "Ok" =>
               Chain(stack[i].input.trusted_state, VerifyReturn(stack[i].out).states)

\* C8 witness: a call returned a chain of at least three blocks.
C8_Witness ==
    /\ Returned
    /\ result.kind = "Ok"
    /\ Len(result.states) >= 3
    /\ Chain(call.input.trusted_state, result.states)

\* C9: every run ends (Io and the Verifier always answer); a pivot is
\* strictly between the trusted and the target height, a nested run works on
\* a strictly smaller interval than the run it answers, a run ends on an
\* insufficient-voting-power rejection only at height difference 1, and a
\* run that ends with TrustedStates has verified a chain up to its target.
C9_RunsEnd ==
    /\ (stack # << >>) ~> Returned
    /\ [](\A i \in 1..Len(stack) :
            LET f == stack[i]
                s == f.sched
            IN /\ (s.pc = "pivot" /\ f.req.kind = "GetLightBlock") =>
                    (s.trusted.height < f.req.height /\ f.req.height < s.target.height)
               /\ i < Len(stack) =>
                    stack[i + 1].input.height - stack[i + 1].input.trusted_state.height
                        < s.target.height - s.trusted.height
               /\ (s.pc = "done" /\ f.out.kind = "Err" /\ f.out.err.cause = VotingPower) =>
                    s.target.height - s.trusted.height = 1
               /\ (s.pc = "done" /\ f.out.kind = "Ok") =>
                    /\ Last(f.out.states) = s.target
                    /\ Chain(f.input.trusted_state, f.out.states))

\* C9 witness: a call that bisected ended with a SchedulerError on an
\* interval of height difference 1.
C9_Witness ==
    /\ Returned
    /\ result = Err(DemuxerErrorScheduler(VotingPower))
    /\ call.input.height - call.input.trusted_state.height >= 2
    /\ store # << >>

\* Every answer the Verifier has given accepts an adjacent pair and rejects
\* a non-adjacent pair for insufficient voting power.
AdjacentOnly ==
    \A p \in DOMAIN verdicts :
        verdicts[p] = IF p[2].height = p[1].height + 1 THEN Accept ELSE VotingPower

\* The node's blocks at heights lo+1 .. hi, in increasing order.
NodeChain(lo, hi) == [i \in 1..(hi - lo) |-> IoBlock(lo + i)]

\* C10: on a chain where only adjacent pairs verify and Io serves every
\* block, verify_height from a trusted block to a higher target returns
\* every block above the trusted one up to the target, in increasing height
\* order, each verified against the one before it.
C10_BisectionFindsTheChain ==
    (/\ Returned
     /\ call.input.kind = "VerifyHeight"
     /\ call.input.trusted_state.height < call.input.height
     /\ AdjacentOnly
     /\ io_failed.kind = "None")
    => /\ result = Ok(NodeChain(call.input.trusted_state.height, call.input.height))
       /\ Chain(call.input.trusted_state, result.states)

\* C10 witness: verify_height from block 0 to the top block returned all the
\* blocks above block 0.
C10_Witness ==
    /\ Returned
    /\ call.input = InputVerifyHeight(MaxHeight, IoBlock(0))
    /\ AdjacentOnly
    /\ result = Ok(NodeChain(0, MaxHeight))

\* C11: a latest_height() that has just returned gave the greatest height
\* present in the store, and a latest() the block stored at that height,
\* whatever adds came before and in whatever order; both give None exactly
\* when the store is empty.
C11_LatestIsTheMaximum ==
    /\ observed.op = "latest_height" =>
         IF DOMAIN store = {} THEN observed.seen = << >>
         ELSE /\ Len(observed.seen) = 1
              /\ observed.seen[1] \in DOMAIN store
              /\ \A k \in DOMAIN store : k <= observed.seen[1]
    /\ observed.op = "latest" =>
         IF DOMAIN store = {} THEN observed.seen = << >>
         ELSE /\ Len(observed.seen) = 1
              /\ observed.seen[1].height \in DOMAIN store
              /\ \A k \in DOMAIN store : k <= observed.seen[1].height
              /\ observed.seen[1] = store[observed.seen[1].height]

\* C11 witness: latest() returned the highest block although the add that
\* returned last put a lower block into a store of several blocks.
C11_Witness ==
    /\ observed.op = "latest"
    /\ Cardinality(DOMAIN store) >= 2
    /\ observed.seen # << >>
    /\ writer.block.height < observed.seen[1].height
    /\ observed.handle # 1

\* The store as the reader handles can see it: the map as it is while no add
\* is in progress, and as it was when the add in progress took the lock.
Committed == IF rwlock.writer THEN writer.before ELSE store

\* C12: an entry of the store is never removed or changed: what get(h)
\* returns, once it returns a block, is the same block after every later
\* operation, an add of another block of height h included.
C12_EntriesNeverChange ==
    [][\A h \in DOMAIN Committed :
           StoreGet(Committed', h) = StoreGet(Committed, h)]_vars

\* C13: once the writer's add(b) has returned, a get(b.height) on any
\* reader handle, the one from split or a clone, returns b; when the add
\* returns, get(h) is for every other height h what it was before the add,
\* and an add of the block already stored leaves the store as it was.
C13_AddThenGet ==
    /\ []((/\ observed.op = "get"
           /\ writer.pc = "idle"
           /\ observed.height = writer.block.height)
          => observed.seen = <<writer.block>>)
    /\ [][(rwlock.writer /\ ~rwlock.writer')
          => /\ StoreGet(store', writer.block.height) = <<writer.block>>
             /\ \A h \in Heights \ {writer.block.height} :
                  StoreGet(store', h) = StoreGet(writer.before, h)
             /\ StoreGet(writer.before, writer.block.height) = <<writer.block>>
                  => store' = writer.before]_vars

\* C13 witness: a clone of the reader got the block of the add that
\* returned last, in a store of several blocks.
C13_Witness ==
    /\ observed.op = "get"
    /\ observed.handle = MaxReaders
    /\ writer.pc = "idle"
    /\ writer.block.content = "b"
    /\ observed.seen = <<writer.block>>
    /\ Cardinality(DOMAIN store) >= 2

\* What a read gives on the map s.
ReadOf(op, h, s) ==
    CASE op = "get" -> StoreGet(s, h)
      [] op = "latest_height" -> StoreLatestHeight(s)
      [] op = "latest" -> StoreLatest(s)
      [] op = "all" -> StoreAll(s)

\* The map once the add in progress is done.
AfterAdd == IF rwlock.writer THEN StoreAdd(writer.before, writer.block) ELSE store

\* C14: no read is made while an add holds the lock; what a get, latest or
\* all has just returned is what it gives on the map entirely before or
\* entirely after the add in progress, if any; every block it shows is a
\* whole block, a get(H) shows nothing or the whole block of height H, and
\* while no add is in progress every entry of the map is a whole block.
C14_ReadsSeeWholeAdds ==
    /\ ~(rwlock.writer /\ rwlock.readers # {})
    /\ ~rwlock.writer => \A h \in DOMAIN store : store[h] \in LightBlock /\ store[h].height = h
    /\ observed.op \in {"get", "latest", "all"} =>
         /\ \/ observed.seen = ReadOf(observed.op, observed.height, Committed)
            \/ observed.seen = ReadOf(observed.op, observed.height, AfterAdd)
         /\ \A i \in 1..Len(observed.seen) : observed.seen[i] \in LightBlock
         /\ observed.op = "get" =>
              \/ observed.seen = << >>
              \/ /\ Len(observed.seen) = 1
                 /\ observed.seen[1].height = observed.height

\* C14 witness: all() returned several whole blocks to one handle while
\* another handle holds the read lock, between two adds of the writer.
C14_Witness ==
    /\ observed.op = "all"
    /\ Len(observed.seen) >= 2
    /\ rwlock.readers # {}
    /\ observed.handle \notin rwlock.readers
    /\ writer.pc = "idle"

\* C15: a step that is validate_light_block or fetch_light_block, called by
\* the caller or while a ValidateLightBlock or GetLightBlock request is
\* answered, leaves the trusted store as it was, whether it returns a block
\* or an error.
C15_SingleShotLeavesStore ==
    [][(\/ (calls' # calls /\ stack' = << >>)
        \/ /\ stack # << >>
           /\ Running(Top)
           /\ Top.req.kind \in {"GetLightBlock", "ValidateLightBlock"})
       => store' = store]_vars

\* C15 witness: the caller's validate_light_block returned the candidate as
\* valid, and the trusted store does not hold it.
C15_Witness ==
    /\ single.kind = "Ok"
    /\ single.states[1].content = "b"
    /\ StoreGet(store, single.states[1].height) = << >>

C17_ThresholdBoundary ==
    (/\ check.verdict # "None"
     /\ check.hashes_ok
     /\ check.time_ok
     /\ check.commit_ok)
    => /\ check.signed * check.threshold[2] = check.total * check.threshold[1]
            => check.verdict = Accept
       /\ check.signed * check.threshold[2] < check.total * check.threshold[1]
            => check.verdict = VotingPower

\* C18: no activation of verify_height / verify_light_block, nested or not,
\* ends with DemuxerError::Verifier, and neither does the call: an error it
\* returns is DemuxerError::Io or DemuxerError::Scheduler.  A rejection by
\* the Verifier reaches the scheduler of the run as a response, and the
\* error of a run that ends on it is the scheduler's own, wrapped as
\* DemuxerError::Scheduler, in the run or in a run nested in it.
C18_NeverVerifierError ==
    /\ result.kind = "Err" => result.err.kind \in {"Io", "Scheduler"}
    /\ \A i \in 1..Len(stack) :
         LET f == stack[i] IN
         /\ f.out.kind = "Err" =>
              /\ f.out.err.kind \in {"Io", "Scheduler"}
              /\ f.out.err.kind = "Scheduler" =>
                   (f.sched.pc \in {"done", "verify"} /\ f.out.err.cause \in VerifierErrors)
              /\ f.out.err.kind = "Io" =>
                   (f.sched.pc \in {"target", "pivot", "verify"} /\ f.out.err = io_failed)
         /\ (f.answered.kind = "ValidateLightBlock" /\ f.resp.kind # "None") =>
              f.resp.kind = "Validated"

\* C18 witness: a call that bisected returned DemuxerError::Scheduler after
\* the Verifier rejected a block in a nested run for another reason than
\* voting power, with nothing committed.
C18_Witness ==
    /\ Returned
    /\ result = Err(DemuxerErrorScheduler(OtherRejection))
    /\ call.input.height - call.input.trusted_state.height >= 2
    /\ \E p \in DOMAIN verdicts : verdicts[p] = VotingPower
    /\ store = << >>

\* C19: the trusted store starts empty and changes only when an activation
\* of verify_height / verify_light_block, nested or not, whose run completed
\* with TrustedStates(list) returns; every entry that is new or changed is
\* then an element of that list and no entry is lost.  Answering a
\* GetLightBlock or ValidateLightBlock request, and the return of a run that
\* ended in error, leave the store as it was.
C19_StoreOnlyFromSuccessfulRuns ==
    /\ store = << >>
    /\ [][store' # store =>
            /\ stack # << >>
            /\ Top.out.kind = "Ok"
            /\ Len(stack') = Len(stack) - 1
            /\ DOMAIN store \subseteq DOMAIN store'
            /\ \A h \in DOMAIN store' :
                 StoreGet(store', h) # StoreGet(store, h) =>
                     \E i \in 1..Len(Top.out.states) : Top.out.states[i] = store'[h]]_vars

\* C19 witness: a call ended with an Io error; what the store holds are the
\* blocks of the nested runs that had completed before.
C19_Witness ==
    /\ Returned
    /\ result.kind = "Err"
    /\ result.err.kind = "Io"
    /\ Cardinality(DOMAIN store) >= 2

\* C20: no step, of a Demuxer call or of an add on the writer handle, takes
\* a height out of the trusted store, and none lowers what latest_height()
\* gives: once it gives Some(h) it gives Some(h') with h' >= h ever after.
C20_HeightsOnlyGrow ==
    [][/\ DOMAIN store \subseteq DOMAIN store'
       /\ StoreLatestHeight(store) # << >> =>
            /\ StoreLatestHeight(store') # << >>
            /\ StoreLatestHeight(store')[1] >= StoreLatestHeight(store)[1]]_vars

\* C20 witness: latest_height() returned the top height to a handle after
\* the writer's last add had put a lower block into a store that holds
\* every height.
C20_Witness ==
    /\ observed.op = "latest_height"
    /\ observed.seen = <<MaxStoreHeight>>
    /\ writer.block.height < MaxStoreHeight
    /\ DOMAIN store = StoreHeights

====
